---- MODULE Spec2Model ----
(***************************************************************************)
(* Model of src/index.ts: the Assessment.fromObject pipeline               *)
(* (parsePlainObject, then validateClassInstance) over the decorated       *)
(* entity classes, with the two variant resolvers of Message.data and      *)
(* Answer.question.                                                        *)
(*                                                                         *)
(* JavaScript values are tagged records: the field k is the kind of the    *)
(* value, v its content; an object also carries cls, the name of its       *)
(* constructor ("Object" for a plain object).                              *)
(***************************************************************************)
EXTENDS Integers, Sequences, FiniteSets, TLC

VARIABLES
    raw,            \* the plain object given to Assessment.fromObject
    pc,             \* where the call is: "parse", "validate", "done"
    parsed,         \* how parsePlainObject ended: "no", "returned", "threw"
    entity,         \* the instance parsePlainObject returned
    errors,         \* the errors validate returned (the list that is logged)
    validateCalled, \* whether validateClassInstance has been called
    outcome         \* how the promise of fromObject settled

vars == <<raw, pc, parsed, entity, errors, validateCalled, outcome>>

----------------------------------------------------------------------------
(* JavaScript values *)

Undef == [k |-> "undefined"]
Null == [k |-> "null"]
Str(s) == [k |-> "string", v |-> s]
Num(n) == [k |-> "number", v |-> n]
Arr(s) == [k |-> "array", v |-> s]
Obj(f) == [cls |-> "Object", k |-> "object", v |-> f]
Inst(c, f) == [cls |-> c, k |-> "object", v |-> f]
DateValue(t) == [k |-> "date", v |-> t]
Thrown(msg) == [k |-> "throw", v |-> msg]

IsNullish(x) == x.k \in {"undefined", "null"}
IsThrown(x) == x.k = "throw"

\* value[key] on any value: a primitive or an array has none of the keys used here
Get(x, key) ==
    IF x.k = "object" /\ key \in DOMAIN x.v THEN x.v[key] ELSE Undef

\* x?.key
OptGet(x, key) == IF IsNullish(x) THEN Undef ELSE Get(x, key)

----------------------------------------------------------------------------
(* The enumerations, lines 92-135 *)

MessageSender == {"AGENT", "CANDIDATE"}

QuestionType ==
    {"HINT", "FTQ", "MCQ", "VOICE", "VIDEO", "SLIDER", "DROPDOWN",
     "BUTTON_GROUP_QUESTION"}

QuestionContentType == {"TEXT", "VOICE", "VIDEO", "SLIDER"}

RuleName ==
    {"maxTextLength", "minTextLength", "recommendedTextLength",
     "minVoiceSeconds", "maxVoiceSeconds", "recommendedVoiceSeconds"}

ButtonType == {"PRIMARY", "SECONDARY", "DEFAULT"}

EnumValues(e) ==
    CASE e = "MessageSender" -> MessageSender
      [] e = "QuestionType" -> QuestionType
      [] e = "QuestionContentType" -> QuestionContentType
      [] e = "RuleName" -> RuleName
      [] e = "ButtonType" -> ButtonType

----------------------------------------------------------------------------
(* The decorators.  A validation decorator registers one metadata record:   *)
(* n is the validator, each its "each" option, arg its argument, type the   *)
(* metadata type class-validator files it under.                            *)

VM(n, each, arg, type) == [n |-> n, each |-> each, arg |-> arg, type |-> type]

IsString == VM("isString", FALSE, "", "customValidation")
IsStringEach == VM("isString", TRUE, "", "customValidation")
IsEnum(e) == VM("isEnum", FALSE, e, "customValidation")
IsEnumEach(e) == VM("isEnum", TRUE, e, "customValidation")
IsNumber == VM("isNumber", FALSE, "", "customValidation")
IsDate == VM("isDate", FALSE, "", "customValidation")
IsArray == VM("isArray", FALSE, "", "customValidation")
IsMongoId == VM("isMongoId", FALSE, "", "customValidation")
IsNotEmpty == VM("isNotEmpty", FALSE, "", "customValidation")
IsDefined == VM("isDefined", FALSE, "", "isDefined")
IsOptional == VM("isOptional", FALSE, "", "conditionalValidation")
ValidateNested == VM("validateNested", FALSE, "", "nestedValidation")
ValidateNestedEach == VM("validateNested", TRUE, "", "nestedValidation")

\* One @Expose() property: its name, its validation decorators, and the
\* argument of its @Type decorator ("" when it has none).
Prop(name, validators, type) ==
    [name |-> name, validators |-> validators, type |-> type]

BaseElement ==
    << Prop("_id", {IsMongoId}, ""),
       Prop("types", {IsStringEach, IsEnumEach("QuestionType"), IsArray}, ""),
       Prop("contents", {ValidateNestedEach, IsArray}, "QuestionContent") >>

Hint == << >>

QuestionContent ==
    << Prop("value", {IsString}, ""),
       Prop("types", {IsStringEach, IsEnumEach("QuestionContentType")}, "") >>

Trait ==
    << Prop("_id", {IsMongoId}, ""),
       Prop("parentId", {IsString, IsOptional}, ""),
       Prop("name", {IsString}, ""),
       Prop("description", {IsString, IsOptional}, "") >>

QuestionRule ==
    << Prop("name", {IsString, IsEnum("RuleName")}, ""),
       Prop("type", {IsString}, ""),
       Prop("value", {IsNumber}, "") >>

QuestionOption ==
    << Prop("id", {IsString}, ""),
       Prop("value", {IsString}, ""),
       Prop("text", {IsString}, "") >>

Question ==
    << Prop("masterId", {IsString, IsOptional}, ""),
       Prop("parentId", {IsMongoId, IsOptional}, ""),
       Prop("traits", {ValidateNestedEach, IsArray, IsOptional}, "Trait"),
       Prop("rules", {ValidateNestedEach, IsArray, IsOptional}, "QuestionRule"),
       Prop("options", {ValidateNestedEach, IsArray, IsOptional}, "QuestionOption"),
       Prop("version", {IsNumber, IsOptional}, ""),
       Prop("language", {IsString, IsOptional}, "") >>

Trigger == << Prop("action", {IsString}, "") >>

Style == << Prop("buttonType", {IsString, IsEnum("ButtonType")}, "") >>

ButtonGroupOption ==
    << Prop("triggers", {ValidateNestedEach, IsArray}, "Trigger"),
       Prop("style", {ValidateNested, IsDefined}, "Style") >>

ButtonGroupQuestion ==
    << Prop("options", {ValidateNestedEach, IsArray}, "ButtonGroupOption") >>

\* "Answer.question" and "Message.data" stand for the two type functions
\* that inspect the enclosing raw object.
Answer ==
    << Prop("_id", {IsString, IsNotEmpty}, ""),
       Prop("question", {IsDefined, ValidateNested}, "Answer.question"),
       Prop("value", {IsString, IsNotEmpty}, ""),
       Prop("text", {IsString, IsNotEmpty}, "") >>

\* The mutant of Message: time without @IsDate().
MessageWithoutIsDate ==
    << Prop("id", {IsString}, ""),
       Prop("sender", {IsEnum("MessageSender")}, ""),
       Prop("label", {IsString, IsOptional}, ""),
       Prop("data", {IsDefined, ValidateNested}, "Message.data"),
       Prop("userAgent", {IsString, IsOptional}, ""),
       Prop("timeTaken", {IsNumber, IsOptional}, ""),
       Prop("time", {IsOptional}, "Date") >>

Message ==
    << Prop("id", {IsString}, ""),
       Prop("sender", {IsEnum("MessageSender")}, ""),
       Prop("label", {IsString, IsOptional}, ""),
       Prop("data", {IsDefined, ValidateNested}, "Message.data"),
       Prop("userAgent", {IsString, IsOptional}, ""),
       Prop("timeTaken", {IsNumber, IsOptional}, ""),
       Prop("time", {IsDate, IsOptional}, "Date") >>

Assessment ==
    << Prop("chatLogs", {IsArray, ValidateNestedEach, IsOptional}, "Message") >>

Classes ==
    {"BaseElement", "Hint", "QuestionContent", "Trait", "QuestionRule",
     "QuestionOption", "Question", "Trigger", "Style", "ButtonGroupOption",
     "ButtonGroupQuestion", "Answer", "Message", "Assessment"}

\* The properties a class declares itself (none for a plain Object).
OwnProps(cls) ==
    CASE cls = "BaseElement" -> BaseElement
      [] cls = "Hint" -> Hint
      [] cls = "QuestionContent" -> QuestionContent
      [] cls = "Trait" -> Trait
      [] cls = "QuestionRule" -> QuestionRule
      [] cls = "QuestionOption" -> QuestionOption
      [] cls = "Question" -> Question
      [] cls = "Trigger" -> Trigger
      [] cls = "Style" -> Style
      [] cls = "ButtonGroupOption" -> ButtonGroupOption
      [] cls = "ButtonGroupQuestion" -> ButtonGroupQuestion
      [] cls = "Answer" -> Answer
      [] cls = "Message" -> Message
      [] cls = "Assessment" -> Assessment
      [] OTHER -> << >>

\* The extends clauses: the superclasses of a class, nearest first.
Ancestors(cls) ==
    CASE cls = "Hint" -> << "BaseElement" >>
      [] cls = "Question" -> << "BaseElement" >>
      [] cls = "ButtonGroupQuestion" -> << "Question", "BaseElement" >>
      [] cls = "ButtonGroupOption" -> << "QuestionOption" >>
      [] OTHER -> << >>

Range(s) == {s[i] : i \in DOMAIN s}

OwnNames(cls) == {p.name : p \in Range(OwnProps(cls))}

OwnProp(cls, name) == CHOOSE p \in Range(OwnProps(cls)) : p.name = name

\* The classes of the chain of cls, cls first.
Chain(cls) == << cls >> \o Ancestors(cls)

----------------------------------------------------------------------------
(* The variant resolvers *)

TypeError == "TypeError: includes is not a function"

\* The strings of the model that hold another string of the model inside
\* them: <<s, t>> when t occurs in s and s # t.
ProperSubstrings == { <<"NO_HINTS", "HINT">> }

\* String.prototype.includes
StringIncludes(s, t) == s = t \/ <<s, t>> \in ProperSubstrings

\* x?.includes(item): "undefined" when x is null or undefined, the answer of
\* Array.prototype.includes or String.prototype.includes when x is an array
\* or a string, and a TypeError when x is anything else (x.includes is then
\* undefined, or a value of the raw tree, and is called).
OptIncludes(x, item) ==
    IF IsNullish(x) THEN "undefined"
    ELSE IF x.k = "array"
        THEN IF \E i \in DOMAIN x.v : x.v[i] = Str(item) THEN "true" ELSE "false"
    ELSE IF x.k = "string"
        THEN IF StringIncludes(x.v, item) THEN "true" ELSE "false"
    ELSE TypeError

isHint(messageData) == OptIncludes(OptGet(messageData, "types"), "HINT")

isButtonGroupQuestion(messageData) ==
    OptIncludes(OptGet(messageData, "types"), "BUTTON_GROUP_QUESTION")

isAnswer(message) == OptGet(message, "sender") = Str("CANDIDATE")

\* A mutant of AnswerQuestionType: the declared type, whatever the question.
AnswerQuestionTypeStatic(object) == "Question"

\* The type function of Answer.question.
AnswerQuestionType(object) ==
    LET bgq == OptIncludes(OptGet(OptGet(object, "question"), "types"),
                           "BUTTON_GROUP_QUESTION")
    IN  IF bgq = TypeError THEN TypeError
        ELSE IF bgq = "true" THEN "ButtonGroupQuestion"
        ELSE "Question"

\* The type function of Message.data.
MessageDataType(object) ==
    LET types == OptGet(OptGet(object, "data"), "types")
        hint == OptIncludes(types, "HINT")
        bgq == OptIncludes(types, "BUTTON_GROUP_QUESTION")
    IN  IF OptGet(object, "sender") = Str("CANDIDATE") THEN "Answer"
        ELSE IF hint = TypeError THEN TypeError
        ELSE IF hint = "true" THEN "Hint"
        ELSE IF bgq = TypeError THEN TypeError
        ELSE IF bgq = "true" THEN "ButtonGroupQuestion"
        ELSE "Question"

----------------------------------------------------------------------------
(* parsePlainObject: plainToInstance under the transform options *)

\* The mutant of TransformOptions: excludeExtraneousValues left out.
TransformOptionsKeepExtraneous ==
    [excludeExtraneousValues |-> FALSE, exposeUnsetFields |-> TRUE]

TransformOptions ==
    [excludeExtraneousValues |-> TRUE, exposeUnsetFields |-> TRUE]

\* The properties of a class and of its superclasses that carry @Expose().
ExposedProperties(cls) ==
    UNION {OwnNames(Chain(cls)[i]) : i \in DOMAIN Chain(cls)}

\* The keys plainToInstance copies from a raw object to an instance of
\* target ("" when the value has no declared type).
GetKeys(target, value) ==
    IF target = "" THEN DOMAIN value.v
    ELSE IF TransformOptions.excludeExtraneousValues
        THEN ExposedProperties(target)
        ELSE DOMAIN value.v \cup ExposedProperties(target)

\* The @Type metadata of a property: that of the nearest class of the chain
\* that gives the property one, "" when none does.
TypeMetadata(cls, key) ==
    LET with == SelectSeq(Chain(cls),
                    LAMBDA c : key \in OwnNames(c) /\ OwnProp(c, key).type # "")
    IN  IF with = << >> THEN "" ELSE OwnProp(with[1], key).type

\* The type a property is transformed to: the type function is called with
\* the raw object the property belongs to.
ResolveType(cls, key, object) ==
    LET meta == IF cls = "" THEN "" ELSE TypeMetadata(cls, key)
    IN  IF meta = "Message.data" THEN MessageDataType(object)
        ELSE IF meta = "Answer.question" THEN AnswerQuestionType(object)
        ELSE meta

\* The strings new Date(string) parses to a valid time.
ParseableDates == {"2021-02-09T03:15:00.000Z"}

\* new Date(value): never throws; an unparsable value gives an Invalid Date.
NewDate(value) ==
    IF value.k = "number" THEN DateValue("valid")
    ELSE IF value.k = "string" /\ value.v \in ParseableDates THEN DateValue("valid")
    ELSE DateValue("NaN")

RECURSIVE Throws(_, _)
\* Whether a type function throws while value is transformed to targetType.
Throws(value, targetType) ==
    IF value.k = "array" THEN
        \E i \in DOMAIN value.v : Throws(value.v[i], targetType)
    ELSE IF targetType = "Date" THEN FALSE
    ELSE IF value.k = "object" THEN
        \E key \in GetKeys(targetType, value) :
            \/ ResolveType(targetType, key, value) = TypeError
            \/ Throws(Get(value, key), ResolveType(targetType, key, value))
    ELSE FALSE

RECURSIVE Instantiate(_, _)
\* TransformOperationExecutor.transform, when no type function throws: an
\* array is transformed item by item; a value of type Date becomes a Date,
\* unless it is null or undefined; an object becomes an instance of its
\* type, with the keys GetKeys gives, each transformed to its own type
\* (exposeUnsetFields: an undefined value is assigned too); any other value
\* is kept.
Instantiate(value, targetType) ==
    IF value.k = "array" THEN
        Arr([i \in DOMAIN value.v |-> Instantiate(value.v[i], targetType)])
    ELSE IF targetType = "Date" THEN
        IF IsNullish(value) THEN value ELSE NewDate(value)
    ELSE IF value.k = "object" THEN
        Inst(IF targetType = "" THEN "Object" ELSE targetType,
             [key \in {x \in GetKeys(targetType, value) :
                          \/ TransformOptions.exposeUnsetFields
                          \/ Get(value, x) # Undef} |->
                Instantiate(Get(value, key), ResolveType(targetType, key, value))])
    ELSE value

\* plainToInstance(type, plainObject, transformOptions): the instance, or
\* Thrown(message) when a type function throws on the way.
Transform(value, targetType) ==
    IF Throws(value, targetType) THEN Thrown(TypeError)
    ELSE Instantiate(value, targetType)

----------------------------------------------------------------------------
(* validateClassInstance: validate under the validator options *)

ValidatorOptions == [whitelist |-> TRUE, forbidNonWhitelisted |-> TRUE]

\* The strings that are 24 hexadecimal digits.
MongoIds ==
    {"5f77dd133075f3b845b19c01", "5f77dd133075f3b845b19c02",
     "6021f9ebb02141003c057051", "5f7d0d27b89cf6d0ce033a25",
     "5f77dd133075f3b845b19d01", "5f77dd133075f3b8450bc2a3"}

\* What one validator answers for one value.
Accepts(m, value) ==
    CASE m.n = "isString" -> value.k = "string"
      [] m.n = "isEnum" -> value.k = "string" /\ value.v \in EnumValues(m.arg)
      [] m.n = "isNumber" -> value.k = "number"
      [] m.n = "isDate" -> value.k = "date" /\ value.v = "valid"
      [] m.n = "isArray" -> value.k = "array"
      [] m.n = "isMongoId" -> value.k = "string" /\ value.v \in MongoIds
      [] m.n = "isNotEmpty" -> ~IsNullish(value) /\ value # Str("")
      [] m.n = "isDefined" -> ~IsNullish(value)

\* customValidations: a validator with each: true is applied to every item
\* of an array (an empty array has no item to fail), and to the value itself
\* when the value is no array.
Passes(m, value) ==
    IF m.each /\ value.k = "array"
        THEN \A i \in DOMAIN value.v : Accepts(m, value.v[i])
        ELSE Accepts(m, value)

\* The validation metadata the decorators of cls itself put on a property.
OwnMetadatas(cls, name) ==
    IF name \in OwnNames(cls) THEN OwnProp(cls, name).validators ELSE {}

\* getTargetValidationMetadatas, for one property: the metadata of the class
\* itself, and of its superclasses those of a metadata type the class itself
\* puts none of on the property.
ValidationMetadatas(cls, name) ==
    LET inherited == UNION {OwnMetadatas(Ancestors(cls)[i], name) :
                                i \in DOMAIN Ancestors(cls)}
    IN  OwnMetadatas(cls, name) \cup
        {x \in inherited :
            \A o \in OwnMetadatas(cls, name) : o.type # x.type}

Reverse(s) == [i \in DOMAIN s |-> s[Len(s) + 1 - i]]

RECURSIVE Flatten(_)
Flatten(ss) == IF ss = << >> THEN << >> ELSE Head(ss) \o Flatten(Tail(ss))

\* groupByPropertyName: the validated properties in the order of their first
\* metadata, the class's own before the inherited, these in declaration order.
PropertyOrder(cls) ==
    LET names(c) == [i \in DOMAIN OwnProps(c) |-> OwnProps(c)[i].name]
        up == Reverse(Ancestors(cls))
        own == names(cls)
        rest == Flatten([i \in DOMAIN up |-> names(up[i])])
    IN  own \o SelectSeq(rest, LAMBDA n : n \notin Range(own))

RECURSIVE SetToSeq(_)
SetToSeq(S) ==
    IF S = {} THEN << >>
    ELSE LET x == CHOOSE y \in S : TRUE IN << x >> \o SetToSeq(S \ {x})

ValidationError(property, constraints, children) ==
    [property |-> property, constraints |-> constraints, children |-> children]

\* stripEmptyErrors keeps an error that has a constraint or a child.
NotEmpty(error) == error.constraints # {} \/ error.children # << >>

RECURSIVE Execute(_)
RECURSIVE PerformValidations(_, _, _)

\* ValidationExecutor.performValidations for one property (or one array item)
\* under the metadata metas: the error of the property, empty when it passes.
\* An optional property that is null or undefined is not validated.  A nested
\* value is validated item by item when it is an array, whether or not the
\* decorator says each: true, as an object when it is one, and is an error
\* when it is anything else but undefined.
PerformValidations(value, property, metas) ==
    LET conditional == {m \in metas : m.type = "conditionalValidation"}
        checked == {m \in metas : m.type \in {"isDefined", "customValidation"}}
        nested == {m \in metas : m.type = "nestedValidation"}
        canValidate == conditional = {} \/ ~IsNullish(value)
        failed == {m.n : m \in {c \in checked : ~Passes(c, value)}}
        children ==
            IF nested = {} THEN << >>
            ELSE IF value.k = "array" THEN
                SelectSeq([i \in DOMAIN value.v |->
                              PerformValidations(value.v[i], ToString(i - 1), nested)],
                          NotEmpty)
            ELSE IF value.k = "object" THEN Execute(value)
            ELSE IF value.k = "undefined" THEN << >>
            ELSE << ValidationError(property, {"nestedValidation"}, << >>) >>
    IN  IF ~canValidate THEN ValidationError(property, {}, << >>)
        ELSE ValidationError(property, failed, children)

\* ValidationExecutor.execute: the errors of one object, those of the
\* properties without metadata first (whitelist), each error holding the
\* errors of the nested objects as children.
Execute(object) ==
    LET of(name) == ValidationMetadatas(object.cls, name)
        unknown == {key \in DOMAIN object.v : of(key) = {}}
        notAllowed ==
            IF ValidatorOptions.whitelist /\ ValidatorOptions.forbidNonWhitelisted
                THEN [i \in DOMAIN SetToSeq(unknown) |->
                        ValidationError(SetToSeq(unknown)[i], {"whitelistValidation"}, << >>)]
                ELSE << >>
        order == PropertyOrder(object.cls)
        general == [i \in DOMAIN order |->
                      PerformValidations(Get(object, order[i]), order[i], of(order[i]))]
    IN  notAllowed \o SelectSeq(general, NotEmpty)

\* validate(instance, validatorOptions)
Validate(instance) == Execute(instance)

----------------------------------------------------------------------------
(* Raw inputs *)

\* o with key set to val; setting undefined leaves the key out, as JSON does.
Set(o, key, val) ==
    LET keys == IF val = Undef THEN DOMAIN o.v \ {key} ELSE DOMAIN o.v \cup {key}
    IN  Obj([x \in keys |-> IF x = key THEN val ELSE o.v[x]])

SeqsUpTo(S, n) == UNION {[1..m -> S] : m \in 0..n}

\* The object literal fromObject is called with at the end of the file.
SampleHint ==
    Obj([options |-> Arr(<< Obj([next |-> Str("5f77dd133075f3b845b19c02"),
                                 id |-> Str("0"), text |-> Str(""),
                                 value |-> Str("0")]) >>),
         masterId |-> Str("greeting"),
         types |-> Arr(<< Str("HINT") >>),
         _id |-> Str("5f77dd133075f3b845b19c01"),
         contents |-> Arr(<< Obj([value |-> Str("Hey Tony, congratulations on your new role with Woolworths, Australia's #1 trusted brand!"),
                                  types |-> Arr(<< Str("TEXT") >>)]) >>)])

SampleAnswerQuestion ==
    Obj([usageWhitelist |-> Arr(<< Str("GENERAL_PY") >>),
         masterId |-> Str("previous.work.exp"),
         types |-> Arr(<< Str("BUTTON_GROUP_QUESTION") >>),
         _id |-> Str("5f7d0d27b89cf6d0ce033a25"),
         contents |-> Arr(<< Obj([value |-> Str("Can you please describe your last work experience?"),
                                  types |-> Arr(<< Str("TEXT") >>)]) >>),
         version |-> Num(1)])

SampleText ==
    Str("I have 10 years of experience in personal finance management, and I have assisted 45 repeat clients in increasing their capital by an average of 15% every year. As a financial analyst, I utilized visual growth charts to show my clients how each saving plan option can impact their goals.")

SampleAnswer ==
    Obj([_id |-> Str("6021f9ebb02141003c057051"),
         text |-> SampleText,
         question |-> SampleAnswerQuestion,
         value |-> SampleText])

SampleQuestion ==
    Obj([_id |-> Str("5f77dd133075f3b845b19d01"),
         masterId |-> Str("5f77dd133075f3b8450bc2a3"),
         types |-> Arr(<< Str("MCQ") >>),
         contents |-> Arr(<< Obj([value |-> Str("Are you hard working"),
                                  types |-> Arr(<< Str("TEXT") >>)]) >>),
         options |-> Arr(<< Obj([id |-> Str("1"), text |-> Str("Yes"), value |-> Str("1")]),
                            Obj([id |-> Str("2"), text |-> Str("No"), value |-> Str("2")]) >>),
         usageWhitelist |-> Arr(<< Str("GENERAL_PY"), Str("SENSITIVE") >>)])

SampleMessage1 ==
    Obj([data |-> SampleHint, sender |-> Str("AGENT"),
         id |-> Str("bc12520c-9e9c-4ac0-971e-528d2dcafb2a")])

SampleMessage2 ==
    Obj([timeTaken |-> Num(54321),
         userAgent |-> Str("Mozilla/5.0 (Windows NT 6.1; Win64; x64; rv:47.0) Gecko/20100101 Firefox/47.0"),
         id |-> Str("db6489af-636f-4f05-a642-96c98fbcb36c"),
         data |-> SampleAnswer, sender |-> Str("CANDIDATE")])

SampleMessage3 ==
    Obj([data |-> SampleQuestion, sender |-> Str("AGENT"),
         id |-> Str("25688f98-27a0-4641-a60f-98ea87825657")])

Sample == Obj([chatLogs |-> Arr(<< SampleMessage1, SampleMessage2, SampleMessage3 >>)])

\* The bounds of the raw inputs: the longest types array, the longest options
\* array and the longest chatLogs array that are enumerated.
MaxTypes == 2
MaxOptions == 2
MaxLogs == 2

RECURSIVE AddExtras(_)
\* x with a key no class declares added to every object of it.
AddExtras(x) ==
    IF x.k = "array" THEN Arr([i \in DOMAIN x.v |-> AddExtras(x.v[i])])
    ELSE IF x.k = "object" THEN
        Obj([key \in DOMAIN x.v \cup {"extraneous"} |->
                IF key = "extraneous" THEN Str("extra")
                ELSE AddExtras(x.v[key])])
    ELSE x

Tags == {"HINT", "BUTTON_GROUP_QUESTION", "MCQ", "BOGUS"}

TypesArrays == {Arr(s) : s \in SeqsUpTo({Str(t) : t \in Tags}, MaxTypes)}

\* What the types key of a raw node may hold: an array of tags, nothing,
\* null, or a value of another kind.
TypesShapes ==
    TypesArrays \cup
    {Undef, Null, Num(7), Obj([length |-> Num(0)]),
     Str("HINT"), Str("NO_HINTS"), Str("BUTTON_GROUP_QUESTION"), Str("MCQ")}

Senders == {Undef, Str("AGENT"), Str("CANDIDATE"), Str("UNKNOWN")}

PlainOption == Obj([id |-> Str("1"), text |-> Str("Yes"), value |-> Str("1")])

ButtonOption ==
    Set(Set(PlainOption, "triggers", Arr(<< Obj([action |-> Str("next")]) >>)),
        "style", Obj([buttonType |-> Str("PRIMARY")]))

OptionNodes ==
    {PlainOption, ButtonOption,
     Set(ButtonOption, "triggers", Undef),
     Set(ButtonOption, "style", Undef),
     Set(ButtonOption, "style", Obj([buttonType |-> Str("LINK")])),
     Set(ButtonOption, "style", Arr(<< >>))}

OptionsShapes ==
    {Null, ButtonOption} \cup {Arr(s) : s \in SeqsUpTo(OptionNodes, MaxOptions)}

\* Messages that differ in sender and in the types (or the kind) of data.
DataMessages ==
    {Set(Set(m, "sender", s), "data", Set(m.v.data, "types", t)) :
        m \in {SampleMessage1, SampleMessage3,
               Set(SampleMessage3, "data", Set(SampleQuestion, "options", Undef))},
        s \in Senders, t \in TypesShapes}
    \cup
    {Set(Set(SampleMessage3, "sender", s), "data", d) :
        s \in Senders,
        d \in {Undef, Null, Str("text"), Arr(<< >>), Arr(<< SampleHint >>)}}

\* Answers that differ in the types (or the kind) of question and in text.
AnswerMessages ==
    {Set(SampleMessage2, "data", Set(Set(SampleAnswer, "question", q), "text", t)) :
        q \in {Set(SampleAnswerQuestion, "types", ty) : ty \in TypesShapes}
              \cup {Undef, Null, Str("text"), Arr(<< >>)},
        t \in {SampleText, Str(""), Undef}}

\* Agent messages that differ in the options of data.
OptionsMessages ==
    {Set(SampleMessage3, "data",
         Set(Set(SampleQuestion, "types", Arr(ty)), "options", o)) :
        ty \in {<< Str("BUTTON_GROUP_QUESTION") >>,
                << Str("MCQ"), Str("BUTTON_GROUP_QUESTION") >>,
                << Str("HINT"), Str("BUTTON_GROUP_QUESTION") >>},
        o \in OptionsShapes}

\* Messages that differ in time, id, sender and in the fields of data.
FieldMessages ==
    {Set(Set(Set(Set(SampleMessage1, "time", t), "id", i), "sender", s), "data", d) :
        t \in {Undef, Null, Str("2021-02-09T03:15:00.000Z"), Str("the day before"),
               Num(1612840500), Obj([year |-> Num(2021)])},
        i \in {Str("bc12520c-9e9c-4ac0-971e-528d2dcafb2a"), Undef, Num(3)},
        s \in Senders,
        d \in {SampleHint,
               Set(SampleHint, "_id", Str("not-an-id")),
               Set(SampleHint, "contents",
                   Arr(<< Obj([value |-> Num(1), types |-> Arr(<< Str("VOICE") >>)]) >>))}}

\* The messages the longer sessions are made of.
SessionMessages ==
    {SampleMessage1, SampleMessage2, SampleMessage3,
     Set(SampleMessage1, "sender", Str("UNKNOWN")),
     Set(SampleMessage2, "data", Set(SampleAnswer, "text", Str(""))),
     Set(SampleMessage3, "time", Str("the day before")),
     Set(SampleMessage3, "data", Set(SampleQuestion, "types", Num(7))),
     Set(SampleMessage1, "data", Set(SampleHint, "types", Arr(<< >>)))}

Sessions ==
    {Obj([chatLogs |-> Arr(<< m >>)]) :
        m \in DataMessages \cup AnswerMessages \cup OptionsMessages \cup FieldMessages}
    \cup {Obj([chatLogs |-> Arr(s)]) : s \in SeqsUpTo(SessionMessages, MaxLogs)}
    \cup {Obj([chatLogs |-> c]) : c \in {Null, Str("text"), SampleMessage1}}
    \cup {Sample}

\* The raw trees fromObject is called with: every session, and every session
\* with extraneous keys added.
RawInputs == Sessions \cup {AddExtras(s) : s \in Sessions}

----------------------------------------------------------------------------
(* Assessment.fromObject *)

Pending == [status |-> "pending", message |-> << >>, value |-> Undef]
Fulfilled(value) == [status |-> "fulfilled", message |-> << >>, value |-> value]
Rejected(message) == [status |-> "rejected", message |-> message, value |-> Undef]

errorMsgTitle == "The following field values do not meet constraints in Assessment"

\* `${props}`: the items of the array joined by commas.
RECURSIVE Join(_)
Join(props) ==
    IF Len(props) <= 1 THEN props
    ELSE << Head(props), "," >> \o Join(Tail(props))

\* The message of the error validateClassInstance throws: the title, then
\* the property of each error validate returned.
ValidationMessage(errs) ==
    << errorMsgTitle, ": " >> \o Join([i \in DOMAIN errs |-> errs[i].property])

Init ==
    /\ raw \in RawInputs
    /\ pc = "parse"
    /\ parsed = "no"
    /\ entity = Undef
    /\ errors = << >>
    /\ validateCalled = FALSE
    /\ outcome = Pending

\* parsePlainObject returns the instance; fromObject goes on to validate it.
ParseReturns ==
    /\ pc = "parse"
    /\ LET instance == Transform(raw, "Assessment")
       IN  /\ ~IsThrown(instance)
           /\ entity' = instance
    /\ parsed' = "returned"
    /\ pc' = "validate"
    /\ UNCHANGED <<raw, errors, validateCalled, outcome>>

\* The mutant of ParseThrows: the catch block logs the error and does not
\* rethrow it, so that fromObject goes on with what it was given.
ParseThrowsSwallowed ==
    /\ pc = "parse"
    /\ Throws(raw, "Assessment")
    /\ parsed' = "threw"
    /\ entity' = raw
    /\ pc' = "validate"
    /\ UNCHANGED <<raw, errors, validateCalled, outcome>>

\* plainToInstance throws: parsePlainObject rethrows the message and
\* fromObject ends with it.
ParseThrows ==
    /\ pc = "parse"
    /\ LET error == Transform(raw, "Assessment")
       IN  /\ IsThrown(error)
           /\ outcome' = Rejected(<< error.v >>)
    /\ parsed' = "threw"
    /\ pc' = "done"
    /\ UNCHANGED <<raw, entity, errors, validateCalled>>

\* entity.validate() finds no error: fromObject returns the entity.
ValidateReturns ==
    /\ pc = "validate"
    /\ Len(Validate(entity)) = 0
    /\ validateCalled' = TRUE
    /\ errors' = << >>
    /\ outcome' = Fulfilled(entity)
    /\ pc' = "done"
    /\ UNCHANGED <<raw, parsed, entity>>

\* entity.validate() finds errors: validateClassInstance throws.
ValidateThrows ==
    /\ pc = "validate"
    /\ LET errs == Validate(entity)
       IN  /\ Len(errs) > 0
           /\ errors' = errs
           /\ outcome' = Rejected(ValidationMessage(errs))
    /\ validateCalled' = TRUE
    /\ pc' = "done"
    /\ UNCHANGED <<raw, parsed, entity>>

Next == ParseReturns \/ ParseThrows \/ ValidateReturns \/ ValidateThrows

Spec == Init /\ [][Next]_vars

----------------------------------------------------------------------------
(* What the claims speak of *)

\* The items of chatLogs, of the raw tree and of the instance.
Logs(x) == IF Get(x, "chatLogs").k = "array" THEN Get(x, "chatLogs").v ELSE << >>

\* A types value that is an array holding the tag.
HasTag(types, tag) ==
    types.k = "array" /\ \E j \in DOMAIN types.v : types.v[j] = Str(tag)

Variants == {"Answer", "Hint", "ButtonGroupQuestion", "Question"}

\* The variant the priority list gives the data of a raw message.
ExpectedDataVariant(m) ==
    IF Get(m, "sender") = Str("CANDIDATE") THEN "Answer"
    ELSE IF HasTag(Get(Get(m, "data"), "types"), "HINT") THEN "Hint"
    ELSE IF HasTag(Get(Get(m, "data"), "types"), "BUTTON_GROUP_QUESTION")
        THEN "ButtonGroupQuestion"
    ELSE "Question"

\* The variant the rule of Answer.question gives the question of a raw answer.
ExpectedQuestionVariant(a) ==
    IF HasTag(Get(Get(a, "question"), "types"), "BUTTON_GROUP_QUESTION")
        THEN "ButtonGroupQuestion"
    ELSE "Question"

\* The raw messages that are objects, by index.
MessageIndexes == {i \in DOMAIN Logs(raw) : Logs(raw)[i].k = "object"}

\* The raw messages that hold an answer: sent by the candidate, data an object.
AnswerIndexes ==
    {i \in MessageIndexes :
        /\ Get(Logs(raw)[i], "sender") = Str("CANDIDATE")
        /\ Get(Logs(raw)[i], "data").k = "object"}

\* A types value of the shapes the schema gives it: an array, or absent.
WellShaped(types) == types.k \in {"array", "undefined", "null"}

RECURSIVE ViolatedProperties(_)
\* The properties that have a violated constraint, anywhere in the error tree.
ViolatedProperties(errs) ==
    UNION {(IF errs[i].constraints # {} THEN {errs[i].property} ELSE {})
              \cup ViolatedProperties(errs[i].children) : i \in DOMAIN errs}

RECURSIVE Objects(_)
\* Every object of a value, the value itself included.
Objects(x) ==
    IF x.k = "array" THEN UNION {Objects(x.v[i]) : i \in DOMAIN x.v}
    ELSE IF x.k = "object" THEN {x} \cup UNION {Objects(x.v[key]) : key \in DOMAIN x.v}
    ELSE {}

\* The keys of the raw inputs that no class declares.
ExtraneousKeys == {"extraneous", "usageWhitelist", "next"}

RECURSIVE RemoveExtraneous(_)
\* x without the extraneous keys, at every level.
RemoveExtraneous(x) ==
    IF x.k = "array" THEN Arr([i \in DOMAIN x.v |-> RemoveExtraneous(x.v[i])])
    ELSE IF x.k = "object" THEN
        Obj([key \in DOMAIN x.v \ ExtraneousKeys |-> RemoveExtraneous(x.v[key])])
    ELSE x

\* Whether fromObject returns an instance for the raw tree r.
Succeeds(r) ==
    /\ ~Throws(r, "Assessment")
    /\ Len(Validate(Instantiate(r, "Assessment"))) = 0

\* A time that new Date turns into an Invalid Date.
Uncoercible(t) == ~IsNullish(t) /\ NewDate(t) = DateValue("NaN")

HasUncoercibleTime ==
    \E i \in MessageIndexes : Uncoercible(Get(Logs(raw)[i], "time"))

HasUnknownSender ==
    \E i \in MessageIndexes : Get(Logs(raw)[i], "sender") = Str("UNKNOWN")

TransformFailed == pc = "done" /\ parsed = "threw"

ValidationFailed ==
    pc = "done" /\ validateCalled /\ outcome.status = "rejected"

Returned == pc = "done" /\ outcome.status = "fulfilled"

----------------------------------------------------------------------------
(* The claims *)

\* C1: for every raw message the type function of Message.data gives the
\* variant of the priority list (Answer for a CANDIDATE sender, else Hint when
\* data.types contains HINT, else ButtonGroupQuestion when it contains
\* BUTTON_GROUP_QUESTION, else Question), and the data of the instance is of
\* that variant: one variant for every input.
C1_DataVariantPriority ==
    pc # "parse" => \A i \in MessageIndexes :
        /\ MessageDataType(Logs(raw)[i]) = ExpectedDataVariant(Logs(raw)[i])
        /\ (parsed = "returned" /\ Get(Logs(raw)[i], "data").k = "object") =>
              Get(Logs(entity)[i], "data").cls = ExpectedDataVariant(Logs(raw)[i])

\* The part of C1 that holds: the priority list, for a types value that is an
\* array or is absent, on every instance parsePlainObject returns.
DataVariantPriorityWellShaped ==
    \A i \in MessageIndexes :
        WellShaped(Get(Get(Logs(raw)[i], "data"), "types")) =>
            /\ MessageDataType(Logs(raw)[i]) = ExpectedDataVariant(Logs(raw)[i])
            /\ (parsed = "returned" /\ Get(Logs(raw)[i], "data").k = "object") =>
                  Get(Logs(entity)[i], "data").cls = ExpectedDataVariant(Logs(raw)[i])

\* C2: for every raw answer the type function of Answer.question gives
\* ButtonGroupQuestion when question.types contains BUTTON_GROUP_QUESTION and
\* Question otherwise (HINT plays no part), and the question of the instance
\* is of that variant.
C2_QuestionVariant ==
    pc # "parse" => \A i \in AnswerIndexes :
        LET a == Get(Logs(raw)[i], "data")
        IN  /\ AnswerQuestionType(a) = ExpectedQuestionVariant(a)
            /\ (parsed = "returned" /\ Get(a, "question").k = "object") =>
                  Get(Get(Logs(entity)[i], "data"), "question").cls
                      = ExpectedQuestionVariant(a)

\* The part of C2 that holds: the rule, for a types value that is an array or
\* is absent.
QuestionVariantWellShaped ==
    \A i \in AnswerIndexes :
        LET a == Get(Logs(raw)[i], "data")
        IN  WellShaped(Get(Get(a, "question"), "types")) =>
            /\ AnswerQuestionType(a) = ExpectedQuestionVariant(a)
            /\ (parsed = "returned" /\ Get(a, "question").k = "object") =>
                  Get(Get(Logs(entity)[i], "data"), "question").cls
                      = ExpectedQuestionVariant(a)

\* C3: validation starts only after parsePlainObject has returned; when
\* parsePlainObject throws, validateClassInstance is never called and the
\* call ends with the message of the transform failure.
C3_TransformBeforeValidate ==
    /\ validateCalled => parsed = "returned"
    /\ pc = "validate" => parsed = "returned" /\ entity.k = "object"
    /\ parsed = "threw" =>
          /\ pc = "done"
          /\ ~validateCalled
          /\ outcome = Rejected(<< TypeError >>)

C3_Witness == TransformFailed /\ ~validateCalled

\* C4: when two properties of nested objects are violated, the one error
\* fromObject fails with lists each of the violated properties.
C4_NestedViolationsListed ==
    (ValidationFailed /\ Cardinality(ViolatedProperties(errors)) >= 2) =>
        ViolatedProperties(errors) \subseteq Range(outcome.message)

\* C5: a raw tree that is valid but for extraneous keys gives an instance,
\* the one the tree without them gives, and no object of it has such a key.
C5_ExtraneousKeysDropped ==
    (pc = "done" /\ RemoveExtraneous(raw) # raw /\ Succeeds(RemoveExtraneous(raw))) =>
        /\ outcome.status = "fulfilled"
        /\ outcome.value = Instantiate(RemoveExtraneous(raw), "Assessment")
        /\ \A o \in Objects(outcome.value) : DOMAIN o.v \cap ExtraneousKeys = {}

C5_Witness ==
    /\ Returned
    /\ "extraneous" \in DOMAIN raw.v
    /\ \E i \in MessageIndexes :
          /\ "extraneous" \in DOMAIN Logs(raw)[i].v
          /\ "extraneous" \in DOMAIN Get(Logs(raw)[i], "data").v

C7_ResolutionNeverThrows ==
    pc # "parse" =>
        /\ parsed = "returned"
        /\ \A i \in MessageIndexes :
              Get(Get(Logs(raw)[i], "data"), "types").k # "array" =>
                  MessageDataType(Logs(raw)[i]) \in {"Answer", "Question"}
        /\ \A i \in AnswerIndexes :
              Get(Get(Get(Logs(raw)[i], "data"), "question"), "types").k # "array" =>
                  AnswerQuestionType(Get(Logs(raw)[i], "data")) = "Question"

PromptFamily == {"Question", "Hint", "ButtonGroupQuestion"}

\* C8: in every instance fromObject returns, the types of every Question, Hint
\* and ButtonGroupQuestion is a non-empty array of members of QuestionType.
C8_TypesNonEmpty ==
    Returned =>
        \A o \in Objects(outcome.value) :
            o.cls \in PromptFamily =>
                /\ Get(o, "types").k = "array"
                /\ Len(Get(o, "types").v) > 0
                /\ \A j \in DOMAIN Get(o, "types").v :
                      /\ Get(o, "types").v[j].k = "string"
                      /\ Get(o, "types").v[j].v \in QuestionType

\* C9: for the sample, fromObject returns an instance with three chatLogs: the
\* data of the first a Hint, of the second an Answer whose question is a
\* ButtonGroupQuestion, of the third a Question with two QuestionOptions.
C9_Sample ==
    (raw = Sample /\ pc = "done") =>
        /\ outcome.status = "fulfilled"
        /\ outcome.value.cls = "Assessment"
        /\ Len(Logs(outcome.value)) = 3
        /\ \A i \in 1..3 : Logs(outcome.value)[i].cls = "Message"
        /\ Get(Logs(outcome.value)[1], "data").cls = "Hint"
        /\ Get(Logs(outcome.value)[2], "data").cls = "Answer"
        /\ Get(Get(Logs(outcome.value)[2], "data"), "question").cls = "ButtonGroupQuestion"
        /\ Get(Logs(outcome.value)[3], "data").cls = "Question"
        /\ Get(Get(Logs(outcome.value)[3], "data"), "options").k = "array"
        /\ Len(Get(Get(Logs(outcome.value)[3], "data"), "options").v) = 2
        /\ \A j \in 1..2 :
              Get(Get(Logs(outcome.value)[3], "data"), "options").v[j].cls = "QuestionOption"

C9_Witness == raw = Sample /\ Returned /\ validateCalled

\* C10: when an AGENT message whose data.types holds BUTTON_GROUP_QUESTION and
\* not HINT is part of an instance fromObject returns, every item of its
\* options is a ButtonGroupOption with a triggers array and a style whose
\* buttonType is a member of ButtonType.
C10_ButtonGroupOptions ==
    Returned =>
        \A i \in MessageIndexes :
            LET types == Get(Get(Logs(raw)[i], "data"), "types")
                options == Get(Get(Logs(outcome.value)[i], "data"), "options")
            IN  (/\ Get(Logs(raw)[i], "sender") = Str("AGENT")
                 /\ HasTag(types, "BUTTON_GROUP_QUESTION")
                 /\ ~HasTag(types, "HINT")
                 /\ options.k = "array") =>
                    /\ Get(Logs(outcome.value)[i], "data").cls = "ButtonGroupQuestion"
                    /\ \A j \in DOMAIN options.v :
                          /\ options.v[j].k = "object"
                          /\ options.v[j].cls = "ButtonGroupOption"
                          /\ Get(options.v[j], "triggers").k = "array"
                          /\ Get(options.v[j], "style").k = "object"
                          /\ Get(Get(options.v[j], "style"), "buttonType")
                                \in {Str(b) : b \in ButtonType}

====
